---- MODULE Spec2Model ----
(***************************************************************************)
(* Model of radio_flux_exomoon.ipynb (MOOSTARD): the ten function cells,   *)
(* the catalog and generic-parameter cells, and the three per-object       *)
(* pipeline cells, executed by one notebook kernel whose global namespace  *)
(* is the state.                                                           *)
(*                                                                         *)
(* Numbers.  The notebook computes with astropy Quantities over numpy      *)
(* float64.  A magnitude is modelled as a decimal floating-point number    *)
(* with a four-digit mantissa, s * m * 10^e with 1000 <= m <= 9999,        *)
(* rounded to nearest after every operation, plus the IEEE specials the    *)
(* numpy ufuncs return instead of raising: +-inf and nan.  The exponent is *)
(* unbounded, so float64 overflow and underflow are outside the model.     *)
(* Magnitudes are held in CGS (cm, g, s, Gauss, erg), the system every     *)
(* function's .decompose().cgs resolves to; frequencies are in MHz and     *)
(* distances in parsec as the notebook writes them, converted where        *)
(* flux_rad's .to('mJy') converts them.                                    *)
(***************************************************************************)
EXTENDS Integers, Sequences, FiniteSets

VARIABLES
  consts,   \* the physical constants of the first cell
  catalog,  \* per object: the literature values of cells 11 and 12
  generic,  \* nu_c, B_p, r_s, beta_s of cell 13
  derived,  \* per object: the names its pipeline cell assigns
  pc,       \* per object: the last statement of its cell that ran
  trace,    \* per object: the functions its current run has called, in order
  active,   \* the cell the kernel is executing, or "none"
  runs,     \* pipeline cell executions started so far
  hist,     \* completed runs: object, tunable parameters, printed flux
  fn,       \* the function of the latest direct call, or "none"
  args,     \* its arguments
  res,      \* its return value
  aux       \* sub-expressions of the latest call that the claims speak about

vars == <<consts, catalog, generic, derived, pc, trace, active, runs, hist,
          fn, args, res, aux>>

(***************************** decimal floats ******************************)

PowersOfTen ==
  <<1, 10, 100, 1000, 10000, 100000, 1000000, 10000000, 100000000, 1000000000>>
Pow10(i) == PowersOfTen[i + 1]

\* number of decimal digits of n, 1 <= n < 2^31
NumDigits(n) ==
  IF n < 10000
  THEN (IF n < 100 THEN (IF n < 10 THEN 1 ELSE 2) ELSE (IF n < 1000 THEN 3 ELSE 4))
  ELSE IF n < 10000000
       THEN (IF n < 100000 THEN 5 ELSE IF n < 1000000 THEN 6 ELSE 7)
       ELSE (IF n < 100000000 THEN 8 ELSE IF n < 1000000000 THEN 9 ELSE 10)

Zero == [k |-> "num", s |-> 1, m |-> 0, e |-> 0]
NaN == [k |-> "nan", s |-> 1, m |-> 0, e |-> 0]
Inf(sgn) == [k |-> "inf", s |-> sgn, m |-> 0, e |-> 0]

\* sgn * n * 10^ex rounded to nearest at four significant digits
Norm(sgn, n, ex) ==
  IF n = 0 THEN Zero
  ELSE LET d == NumDigits(n) IN
       IF d <= 4
       THEN [k |-> "num", s |-> sgn, m |-> n * Pow10(4 - d), e |-> ex - (4 - d)]
       ELSE LET q == (n + 5 * Pow10(d - 5)) \div Pow10(d - 4) IN
            IF q = 10000
            THEN [k |-> "num", s |-> sgn, m |-> 1000, e |-> ex + (d - 4) + 1]
            ELSE [k |-> "num", s |-> sgn, m |-> q, e |-> ex + (d - 4)]

\* the literal n * 10^ex, n an integer
F(n, ex) == IF n < 0 THEN Norm(-1, -n, ex) ELSE Norm(1, n, ex)

IsNum(x) == x.k = "num"
IsZero(x) == x.k = "num" /\ x.m = 0
IsNaN(x) == x.k = "nan"
IsInf(x) == x.k = "inf"

Neg(x) == IF IsNaN(x) \/ IsZero(x) THEN x ELSE [x EXCEPT !.s = -(x.s)]

Mul(x, y) ==
  IF IsNaN(x) \/ IsNaN(y) THEN NaN
  ELSE IF IsInf(x) \/ IsInf(y)
       THEN IF IsZero(x) \/ IsZero(y) THEN NaN ELSE Inf(x.s * y.s)
  ELSE IF IsZero(x) \/ IsZero(y) THEN Zero
  ELSE Norm(x.s * y.s, x.m * y.m, x.e + y.e)

Div(x, y) ==
  IF IsNaN(x) \/ IsNaN(y) THEN NaN
  ELSE IF IsInf(x) THEN (IF IsInf(y) THEN NaN ELSE Inf(x.s * y.s))
  ELSE IF IsInf(y) THEN Zero
  ELSE IF IsZero(y) THEN (IF IsZero(x) THEN NaN ELSE Inf(x.s))
  ELSE IF IsZero(x) THEN Zero
  ELSE Norm(x.s * y.s, (x.m * 100000) \div y.m, x.e - y.e - 5)

\* x + y for finite non-zero x, y with x.e >= y.e
AddAligned(x, y) ==
  LET diff == x.e - y.e IN
  IF diff >= 6 THEN x
  ELSE LET t == x.s * x.m * Pow10(diff) + y.s * y.m IN
       IF t < 0 THEN Norm(-1, -t, y.e) ELSE Norm(1, t, y.e)

Add(x, y) ==
  IF IsNaN(x) \/ IsNaN(y) THEN NaN
  ELSE IF IsInf(x) THEN (IF IsInf(y) /\ x.s # y.s THEN NaN ELSE x)
  ELSE IF IsInf(y) THEN y
  ELSE IF IsZero(x) THEN y
  ELSE IF IsZero(y) THEN x
  ELSE IF x.e >= y.e THEN AddAligned(x, y) ELSE AddAligned(y, x)

Sub(x, y) == Add(x, Neg(y))

Abs(x) == IF IsNaN(x) THEN x ELSE [x EXCEPT !.s = 1]

\* floor of the square root of n by bisection on lo <= r < hi
RECURSIVE ISqrtIn(_, _, _)
ISqrtIn(n, lo, hi) ==
  IF hi - lo <= 1 THEN lo
  ELSE LET mid == (lo + hi) \div 2 IN
       IF mid * mid <= n THEN ISqrtIn(n, mid, hi) ELSE ISqrtIn(n, lo, mid)

ISqrt(n) == ISqrtIn(n, 0, 31623)

Sqrt(x) ==
  IF IsNaN(x) THEN NaN
  ELSE IF IsZero(x) THEN Zero
  ELSE IF x.s = -1 THEN NaN
  ELSE IF IsInf(x) THEN x
  ELSE IF x.e % 2 = 0
       THEN Norm(1, ISqrt(x.m * 10000), (x.e - 4) \div 2)
       ELSE Norm(1, ISqrt(x.m * 100000), (x.e - 5) \div 2)

Sq(x) == Mul(x, x)
Cube(x) == Mul(Mul(x, x), x)

Lt(x, y) ==
  LET dd == Sub(x, y) IN
  (IsInf(dd) /\ dd.s = -1) \/ (IsNum(dd) /\ dd.s = -1 /\ dd.m > 0)
Le(x, y) == x = y \/ Lt(x, y)

\* a finite magnitude >= 0 (neither nan nor an infinity)
NonNeg(x) == IsNum(x) /\ (x.m = 0 \/ x.s = 1)
Positive(x) == IsNum(x) /\ x.m > 0 /\ x.s = 1

(******************************* the functions *****************************)

One == F(1, 0)
Two == F(2, 0)
Pi == F(3142, -3)
Unset == [k |-> "unset", s |-> 1, m |-> 0, e |-> 0]

\* astropy's conversions at flux_rad's boundary
MHz_to_Hz(x) == Mul(x, F(1, 6))
pc_to_cm(x) == Mul(x, F(3086, 15))
cgs_to_mJy(x) == Mul(x, F(1, 26))

escape_speed(m_s, r_s) ==
  Sqrt(Div(Mul(Mul(Mul(Two, consts.G), m_s), consts.m_io), Mul(r_s, consts.r_io)))

orbital_speed(m_p, a_s, r_p) ==
  LET d_orb == Mul(Mul(a_s, r_p), consts.R_jup) IN
  Sqrt(Div(Mul(Mul(consts.G, m_p), consts.M_jup), d_orb))

\* slip: the difference without np.abs
rel_plasma_speed_signed(v_orb, v_ej) == Sub(v_orb, v_ej)

\* slip: np.abs around the first operand only
rel_plasma_speed_half_abs(v_orb, v_ej) == Sub(Abs(v_orb), v_ej)

rel_plasma_speed(v_orb, v_ej) == Abs(Sub(v_orb, v_ej))

volume_torus(a_s, r_p, v_ej, v_orb) ==
  LET d_orb == Mul(Mul(a_s, r_p), consts.R_jup) IN
  Mul(Mul(Mul(Two, Sq(Pi)), Cube(d_orb)), Sq(Div(v_ej, v_orb)))

plasma_density(Mdot_s, t_ion, vol_t) == Div(Mul(Mdot_s, t_ion), vol_t)

magnetic_field_p(nu_c) == Div(nu_c, F(28, -1))

\* slip: a_s**2 for a_s**3
magnetic_field_s_square(B_p, a_s) == Div(B_p, Sq(a_s))

magnetic_field_s(B_p, a_s) == Div(B_p, Cube(a_s))

\* the critical density 1/mu0 * (B_s / v0)**2 inside power_rad
rho_critical(B_s, v0) == Mul(Div(One, consts.mu0), Sq(Div(B_s, v0)))

\* slip: rho_s left out of the denominator
mixing_fraction_unbounded(rho_s, B_s, v0) == Sqrt(Div(rho_s, rho_critical(B_s, v0)))

\* the density-mixing fraction np.sqrt(rho_s / (rho_s + rho_critical))
mixing_fraction(rho_s, B_s, v0) ==
  Sqrt(Div(rho_s, Add(rho_s, rho_critical(B_s, v0))))

power_rad(beta_s, r_s, B_s, v0, rho_s) ==
  Mul(Div(Mul(Mul(Mul(Mul(Pi, beta_s), Sq(Mul(r_s, consts.r_io))), Sq(B_s)), v0),
          consts.mu0),
      mixing_fraction(rho_s, B_s, v0))

\* slip: the bandwidth taken as nu_c, not nu_c / 2
flux_rad_full_band(P_rad, omega, d, nu_c) ==
  cgs_to_mJy(Div(P_rad, Mul(Mul(omega, MHz_to_Hz(nu_c)), Sq(pc_to_cm(d)))))

flux_rad(P_rad, omega, d, nu_c) ==
  cgs_to_mJy(Div(P_rad, Mul(Mul(omega, Div(MHz_to_Hz(nu_c), Two)), Sq(pc_to_cm(d)))))

omega_default == F(16, -2)

(****************************** the notebook *******************************)

Objects == {"WASP49", "HATP12", "HD189"}

ConstantsCell ==
  [G |-> F(6674, -11), mu0 |-> F(1257, -2), M_jup |-> F(1898, 27),
   R_jup |-> F(7149, 6), m_io |-> F(8932, 22), r_io |-> F(1821, 5)]

CatalogCells ==
  [o \in Objects |->
     CASE o = "WASP49" ->
            [p |-> F(2782, -3), d |-> F(19455, -2), m |-> F(399, -3),
             r |-> F(1198, -3), t |-> F(32586, 0), Md |-> F(1995, 4)]
       [] o = "HATP12" ->
            [p |-> F(3213, -3), d |-> F(14275, -2), m |-> F(211, -3),
             r |-> F(949, -3), t |-> F(33162, 0), Md |-> F(6310, 5)]
       [] o = "HD189" ->
            [p |-> F(2219, -3), d |-> F(1976, -2), m |-> F(1166, -3),
             r |-> F(1119, -3), t |-> F(49867, 0), Md |-> F(2512, 5)]]

\* the satellite orbit each pipeline cell assigns first
OrbitOf(o) == IF o = "WASP49" THEN F(119, -2) ELSE F(114, -2)

GenericCell(nu, rs, beta) ==
  [nu_c |-> nu, B_p |-> magnetic_field_p(nu), r_s |-> rs, beta_s |-> beta]

NoDerived ==
  [a |-> Unset, Bs |-> Unset, vej |-> Unset, vorb |-> Unset, v0 |-> Unset,
   vol |-> Unset, rho |-> Unset, Prad |-> Unset, S |-> Unset]

NoAux == [rho_c |-> Unset, frac |-> Unset, chain |-> NoDerived]

Init ==
  /\ consts = ConstantsCell
  /\ catalog = CatalogCells
  /\ generic = GenericCell(F(150, 0), One, F(1, -1))
  /\ derived = [o \in Objects |-> NoDerived]
  /\ pc = [o \in Objects |-> "idle"]
  /\ trace = [o \in Objects |-> <<>>]
  /\ active = "none"
  /\ runs = 0
  /\ hist = {}
  /\ fn = "none"
  /\ args = <<>>
  /\ res = Unset
  /\ aux = NoAux

\* one statement of o's pipeline cell: assign name to value, having called f
Assign(o, from, to, name, value, f) ==
  /\ pc[o] \in from
  /\ pc' = [pc EXCEPT ![o] = to]
  /\ derived' = [derived EXCEPT ![o] = [derived[o] EXCEPT ![name] = value]]
  /\ trace' = [trace EXCEPT ![o] = IF f = "" THEN <<>> ELSE Append(trace[o], f)]
  /\ UNCHANGED <<consts, catalog, generic, fn, args, res, aux>>

StepA(o) == Assign(o, {"idle", "done"}, "a", "a", OrbitOf(o), "")

StepBs(o) ==
  Assign(o, {"a"}, "Bs", "Bs",
         magnetic_field_s(generic.B_p, derived[o].a), "magnetic_field_s")

\* slip: the cell goes on past the orbital_speed statement
StepVej_skip(o) ==
  Assign(o, {"Bs"}, "vorb", "vej", escape_speed(One, One), "escape_speed")

StepVej(o) == Assign(o, {"Bs"}, "vej", "vej", escape_speed(One, One), "escape_speed")

\* slip: a pasted cell still assigns vorb_WASP49
StepVorb_clobber(o) ==
  /\ pc[o] = "vej"
  /\ pc' = [pc EXCEPT ![o] = "vorb"]
  /\ derived' = [derived EXCEPT !["WASP49"].vorb =
                   orbital_speed(catalog[o].m, derived[o].a, catalog[o].r)]
  /\ trace' = [trace EXCEPT ![o] = Append(trace[o], "orbital_speed")]
  /\ UNCHANGED <<consts, catalog, generic, fn, args, res, aux>>

StepVorb(o) ==
  Assign(o, {"vej"}, "vorb", "vorb",
         orbital_speed(catalog[o].m, derived[o].a, catalog[o].r), "orbital_speed")

StepV0(o) ==
  Assign(o, {"vorb"}, "v0", "v0",
         rel_plasma_speed(derived[o].vorb, derived[o].vej), "rel_plasma_speed")

\* slip: a pasted cell still reads vorb_WASP49 (a NameError, the cell
\* stopping, while that name is unassigned)
StepVol_cross(o) ==
  /\ derived["WASP49"].vorb # Unset
  /\ Assign(o, {"v0"}, "vol", "vol",
            volume_torus(derived[o].a, catalog[o].r, derived[o].vej,
                         derived["WASP49"].vorb),
            "volume_torus")

StepVol(o) ==
  Assign(o, {"v0"}, "vol", "vol",
         volume_torus(derived[o].a, catalog[o].r, derived[o].vej, derived[o].vorb),
         "volume_torus")

StepRho(o) ==
  Assign(o, {"vol"}, "rho", "rho",
         plasma_density(catalog[o].Md, catalog[o].t, derived[o].vol),
         "plasma_density")

StepPrad(o) ==
  Assign(o, {"rho"}, "Prad", "Prad",
         power_rad(generic.beta_s, generic.r_s, derived[o].Bs, derived[o].v0,
                   derived[o].rho),
         "power_rad")

StepS(o) ==
  Assign(o, {"Prad"}, "S", "S",
         flux_rad(derived[o].Prad, omega_default, catalog[o].d, generic.nu_c),
         "flux_rad")

\* the closing print: the cell is done
StepPrint(o) ==
  /\ pc[o] = "S"
  /\ pc' = [pc EXCEPT ![o] = "done"]
  /\ UNCHANGED <<consts, catalog, generic, derived, trace, fn, args, res, aux>>

(************************ the notebook session (Spec) **********************)

MaxRuns == 2

\* the values the "can be tweaked" comments of cell 13 invite
NuChoices == {F(150, 0), F(50, 0)}
RsChoices == {One, F(35, -1)}
BetaChoices == {F(1, -1), F(1, -2)}

Tunables == [nu_c |-> generic.nu_c, r_s |-> generic.r_s, beta_s |-> generic.beta_s]

\* the kernel runs one cell at a time, each to its end
SeqCtl(o) ==
  /\ \/ active = o
     \/ active = "none" /\ runs < MaxRuns
  /\ active' = IF pc'[o] = "done" THEN "none" ELSE o
  /\ runs' = IF active = "none" THEN runs + 1 ELSE runs
  /\ hist' = IF pc'[o] = "done"
             THEN hist \cup {[o |-> o, t |-> Tunables, S |-> derived[o].S]}
             ELSE hist

\* slip: B_p computed before nu_c is assigned, from the kernel's old nu_c
RunGenericCell_stale ==
  /\ active = "none"
  /\ \E nu \in NuChoices, rs \in RsChoices, beta \in BetaChoices :
       generic' = [GenericCell(nu, rs, beta) EXCEPT
                     !.B_p = magnetic_field_p(generic.nu_c)]
  /\ UNCHANGED <<consts, catalog, derived, pc, trace, active, runs, hist,
                 fn, args, res, aux>>

RunGenericCell ==
  /\ active = "none"
  /\ \E nu \in NuChoices, rs \in RsChoices, beta \in BetaChoices :
       generic' = GenericCell(nu, rs, beta)
  /\ UNCHANGED <<consts, catalog, derived, pc, trace, active, runs, hist,
                 fn, args, res, aux>>

SeqNext ==
  \/ RunGenericCell
  \/ \E o \in Objects :
       \/ StepA(o) /\ SeqCtl(o)
       \/ StepBs(o) /\ SeqCtl(o)
       \/ StepVej(o) /\ SeqCtl(o)
       \/ StepVorb(o) /\ SeqCtl(o)
       \/ StepV0(o) /\ SeqCtl(o)
       \/ StepVol(o) /\ SeqCtl(o)
       \/ StepRho(o) /\ SeqCtl(o)
       \/ StepPrad(o) /\ SeqCtl(o)
       \/ StepS(o) /\ SeqCtl(o)
       \/ StepPrint(o) /\ SeqCtl(o)

Spec == Init /\ [][SeqNext]_vars

(******************* the batch of three pipelines (SpecPar) ****************)

ParCtl == UNCHANGED <<active, runs, hist>>

ParNext ==
  \E o \in Objects :
    \/ StepA(o) /\ ParCtl
    \/ StepBs(o) /\ ParCtl
    \/ StepVej(o) /\ ParCtl
    \/ StepVorb(o) /\ ParCtl
    \/ StepV0(o) /\ ParCtl
    \/ StepVol(o) /\ ParCtl
    \/ StepRho(o) /\ ParCtl
    \/ StepPrad(o) /\ ParCtl
    \/ StepS(o) /\ ParCtl
    \/ StepPrint(o) /\ ParCtl

SpecPar == Init /\ [][ParNext]_vars

(********************* direct calls of the functions (SpecFn) **************)

MaxK == 1

\* argument magnitudes: a negative, zero, and positives six decades apart
Positives == {F(m, 6 * k) : m \in {1, 25}, k \in (-MaxK)..MaxK}
Vals == {F(-2, 0), Zero} \cup Positives

\* dimensionless arguments (efficiency, radius and axis ratios, solid angle)
Coefs == {F(-2, 0), Zero, F(1, -1), One}

\* primary inputs of a whole pipeline evaluation
ChainVals == {One, F(25, 0)}

FnNames ==
  {"escape_speed", "orbital_speed", "rel_plasma_speed", "volume_torus",
   "plasma_density", "magnetic_field_p", "magnetic_field_s", "power_rad",
   "flux_rad"}

\* the kernel takes one call at a time: f(a) returns r to the caller
Return(f, a, r, x) ==
  /\ fn' = f
  /\ args' = a
  /\ res' = r
  /\ aux' = x
  /\ UNCHANGED <<consts, catalog, generic, derived, pc, trace, active, runs, hist>>

Call_escape_speed ==
  /\ fn = "none"
  /\ \E m_s, r_s \in Vals :
       Return("escape_speed", <<m_s, r_s>>, escape_speed(m_s, r_s), NoAux)

Call_orbital_speed ==
  /\ fn = "none"
  /\ \E m_p, a_s, r_p \in Vals :
       Return("orbital_speed", <<m_p, a_s, r_p>>, orbital_speed(m_p, a_s, r_p), NoAux)

Call_rel_plasma_speed ==
  /\ fn = "none"
  /\ \E v_orb, v_ej \in Vals :
       Return("rel_plasma_speed", <<v_orb, v_ej>>, rel_plasma_speed(v_orb, v_ej), NoAux)

Call_volume_torus ==
  /\ fn = "none"
  /\ \E a_s, r_p \in Coefs, v_ej, v_orb \in Vals :
       Return("volume_torus", <<a_s, r_p, v_ej, v_orb>>,
              volume_torus(a_s, r_p, v_ej, v_orb), NoAux)

Call_plasma_density ==
  /\ fn = "none"
  /\ \E Mdot_s, t_ion, vol_t \in Vals :
       Return("plasma_density", <<Mdot_s, t_ion, vol_t>>,
              plasma_density(Mdot_s, t_ion, vol_t), NoAux)

Call_magnetic_field_p ==
  /\ fn = "none"
  /\ \E nu_c \in Vals :
       Return("magnetic_field_p", <<nu_c>>, magnetic_field_p(nu_c), NoAux)

Call_magnetic_field_s ==
  /\ fn = "none"
  /\ \E B_p, a_s \in Vals :
       Return("magnetic_field_s", <<B_p, a_s>>, magnetic_field_s(B_p, a_s), NoAux)

Call_power_rad ==
  /\ fn = "none"
  /\ \E beta_s, r_s \in Coefs, B_s, v0, rho_s \in Vals :
       Return("power_rad", <<beta_s, r_s, B_s, v0, rho_s>>,
              power_rad(beta_s, r_s, B_s, v0, rho_s),
              [NoAux EXCEPT !.rho_c = rho_critical(B_s, v0),
                            !.frac = mixing_fraction(rho_s, B_s, v0)])

Call_flux_rad ==
  /\ fn = "none"
  /\ \E omega \in Coefs, P_rad, d, nu_c \in Vals :
       Return("flux_rad", <<P_rad, omega, d, nu_c>>,
              flux_rad(P_rad, omega, d, nu_c), NoAux)

\* the chain of a pipeline cell on inputs of the caller's choosing
\* (r_ej is the radius ratio escape_speed gets, r_s the one power_rad gets)
Pipeline(m_s, r_ej, r_s, m_p, a_s, r_p, Mdot_s, t_ion, nu_c, beta_s, omega, d) ==
  LET Bs == magnetic_field_s(magnetic_field_p(nu_c), a_s)
      vej == escape_speed(m_s, r_ej)
      vorb == orbital_speed(m_p, a_s, r_p)
      v0 == rel_plasma_speed(vorb, vej)
      vol == volume_torus(a_s, r_p, vej, vorb)
      rho == plasma_density(Mdot_s, t_ion, vol)
      Prad == power_rad(beta_s, r_s, Bs, v0, rho)
  IN [a |-> a_s, Bs |-> Bs, vej |-> vej, vorb |-> vorb, v0 |-> v0, vol |-> vol,
      rho |-> rho, Prad |-> Prad, S |-> flux_rad(Prad, omega, d, nu_c)]

Call_pipeline ==
  /\ fn = "none"
  /\ \E m_s, r_s, m_p, a_s, r_p, Mdot_s, t_ion, nu_c, beta_s, omega, d \in ChainVals :
       LET c == Pipeline(m_s, r_s, r_s, m_p, a_s, r_p, Mdot_s, t_ion, nu_c, beta_s,
                         omega, d)
       IN Return("pipeline",
                 <<m_s, r_s, m_p, a_s, r_p, Mdot_s, t_ion, nu_c, beta_s, omega, d>>,
                 c.S, [NoAux EXCEPT !.chain = c])

\* the caller has its value; the kernel is ready for the next call
Prompt ==
  /\ fn # "none"
  /\ fn' = "none"
  /\ args' = <<>>
  /\ res' = Unset
  /\ aux' = NoAux
  /\ UNCHANGED <<consts, catalog, generic, derived, pc, trace, active, runs, hist>>

FnNext ==
  \/ Prompt
  \/ Call_escape_speed
  \/ Call_orbital_speed
  \/ Call_rel_plasma_speed
  \/ Call_volume_torus
  \/ Call_plasma_density
  \/ Call_magnetic_field_p
  \/ Call_magnetic_field_s
  \/ Call_power_rad
  \/ Call_flux_rad
  \/ Call_pipeline

SpecFn == Init /\ [][FnNext]_vars

(******************************** the claims *******************************)

Negative(x) == IsNum(x) /\ x.m > 0 /\ x.s = -1
Within(x, lo, hi) == Le(lo, x) /\ Le(x, hi)

\* a derived argument that positive primary inputs can make zero: v0 of
\* power_rad (equal orbital and ejection speeds) and with it P_rad of flux_rad
MayBeZero == {<<"power_rad", 4>>, <<"flux_rad", 1>>}

PositiveCall ==
  /\ fn \in FnNames
  /\ \A i \in DOMAIN args :
       Positive(args[i]) \/ (IsZero(args[i]) /\ <<fn, i>> \in MayBeZero)

\* C1: for strictly positive inputs every value the pipeline functions
\* produce is a finite number >= 0, each function called alone and all of
\* them chained, also when the orbital speed is below the ejection speed.
C1_NonNegative ==
  /\ PositiveCall => NonNeg(res)
  /\ fn = "pipeline" => \A f \in DOMAIN aux.chain : NonNeg(aux.chain[f])

C1_OrbitSlowerThanEjection ==
  /\ fn = "pipeline"
  /\ Lt(aux.chain.vorb, aux.chain.vej)
  /\ Positive(aux.chain.v0)
  /\ Positive(res)

InvalidCall ==
  /\ fn \in FnNames
  /\ \/ \E i \in DOMAIN args : Negative(args[i])
     \/ fn = "escape_speed" /\ IsZero(args[2])
     \/ fn = "plasma_density" /\ IsZero(args[3])
     \/ fn = "magnetic_field_s" /\ IsZero(args[2])
     \/ fn = "power_rad" /\ IsZero(args[4])

\* C2: a call with a negative input or a zero denominator ends in an explicit
\* failure, never in a returned number, infinity or nan.
C2_InvalidInputFails == InvalidCall => res.k = "raise"

MaxDecades == 3

\* C6: for positive rho_s and rho_critical the density-mixing fraction of
\* power_rad lies in [0,1], does not decrease as rho_s grows, is at most
\* 10^-k once rho_s <= 10^-2k * rho_critical and at least 1 - 10^-k once
\* rho_s >= 10^k * rho_critical.
C6_MixingFraction ==
  (fn = "power_rad" /\ Positive(args[5]) /\ Positive(aux.rho_c)) =>
    /\ Within(aux.frac, Zero, One)
    /\ \A r2 \in Positives :
         Lt(args[5], r2) => Le(aux.frac, mixing_fraction(r2, args[3], args[4]))
    /\ \A k \in 1..MaxDecades :
         /\ Le(Mul(args[5], F(1, 2 * k)), aux.rho_c) => Le(aux.frac, F(1, -k))
         /\ Le(Mul(aux.rho_c, F(1, k)), args[5]) =>
              Le(Sub(One, F(1, -k)), aux.frac)

C6_BetweenRegimes ==
  /\ fn = "power_rad"
  /\ Positive(args[5])
  /\ Positive(aux.rho_c)
  /\ Lt(Zero, aux.frac)
  /\ Lt(aux.frac, One)
  /\ Le(Mul(aux.rho_c, F(1, 1)), args[5])

\* C7: for positive B_p and positive axis ratios a1 < a2,
\* magnetic_field_s(B_p, a1) > magnetic_field_s(B_p, a2), and the result
\* times a^3 gives B_p back (to the arithmetic's precision).
C7_DipoleFalloff ==
  (fn = "magnetic_field_s" /\ Positive(args[1]) /\ Positive(args[2])) =>
    /\ \A a2 \in Positives :
         Lt(args[2], a2) => Lt(magnetic_field_s(args[1], a2), res)
    /\ Le(Abs(Sub(Mul(res, Cube(args[2])), args[1])), Mul(args[1], F(1, -2)))

C7_SmallerRatioCalled ==
  /\ fn = "magnetic_field_s"
  /\ Positive(args[1])
  /\ Positive(args[2])
  /\ \E a2 \in Positives : Lt(args[2], a2)
  /\ args[2] # One
  /\ Positive(res)

\* C8: rel_plasma_speed(a, b) = rel_plasma_speed(b, a) for all speeds a, b,
\* and it is the difference of the two taken with the sign that makes it >= 0.
C8_Symmetric ==
  fn = "rel_plasma_speed" =>
    /\ res = rel_plasma_speed(args[2], args[1])
    /\ res = Sub(args[1], args[2]) \/ res = Sub(args[2], args[1])
    /\ NonNeg(res)

C8_OrbitBelowEjection ==
  /\ fn = "rel_plasma_speed"
  /\ Lt(args[1], args[2])
  /\ Positive(res)

\* C3: two completed runs of an object's cell under the same tunable
\* parameters printed the same flux, whatever ran in between.
C3_SameInputsSameFlux ==
  \A h1, h2 \in hist : (h1.o = h2.o /\ h1.t = h2.t) => h1.S = h2.S

C3_RanAgain ==
  /\ active = "none"
  /\ runs >= 2
  /\ Cardinality(hist) = 1

\* what o's cell computes when it runs alone, start to end
Alone(o) ==
  Pipeline(One, One, generic.r_s, catalog[o].m, OrbitOf(o), catalog[o].r,
           catalog[o].Md, catalog[o].t, generic.nu_c, generic.beta_s, omega_default, catalog[o].d)

\* C4: however the statements of the three cells interleave, a finished cell
\* holds the values its object gets when evaluated alone.
C4_Independent == \A o \in Objects : pc[o] = "done" => derived[o] = Alone(o)

C4_Interleaved ==
  /\ pc["HATP12"] = "done"
  /\ pc["WASP49"] = "vol"
  /\ pc["HD189"] = "Bs"

CodeOrder ==
  <<"magnetic_field_s", "escape_speed", "orbital_speed", "rel_plasma_speed",
    "volume_torus", "plasma_density", "power_rad", "flux_rad">>

ClaimedOrder ==
  <<"escape_speed", "orbital_speed", "rel_plasma_speed", "volume_torus",
    "plasma_density", "magnetic_field_s", "power_rad", "flux_rad">>

IsPrefix(p, q) == Len(p) <= Len(q) /\ p = SubSeq(q, 1, Len(p))

\* C5 as amended: every cell calls magnetic_field_s first, then escape_speed,
\* orbital_speed, rel_plasma_speed, volume_torus, plasma_density, power_rad,
\* flux_rad, each once, in that order, with no branch and no repetition.
C5_StagesInCodeOrder ==
  \A o \in Objects :
    /\ IsPrefix(trace[o], CodeOrder)
    /\ pc[o] = "done" => trace[o] = CodeOrder

\* C5 as claimed: kinematics, torus/plasma, then magnetic_field_s, then
\* power_rad, then flux_rad.
C5_StagesInClaimedOrder ==
  \A o \in Objects : pc[o] = "done" => trace[o] = ClaimedOrder

C5_CellFinished == \E o \in Objects : pc[o] = "done" /\ Len(trace[o]) = 8

\* C9: a statement of a pipeline cell changes neither the physical constants,
\* nor a catalog entry, nor the generic parameters, nor another object's
\* derived quantities.
C9_PipelineFrame ==
  [][pc' # pc =>
       /\ consts' = consts
       /\ catalog' = catalog
       /\ generic' = generic
       /\ \A o \in Objects : pc'[o] = pc[o] => derived'[o] = derived[o]]_vars

C9_TwoCellsRan ==
  /\ pc["HATP12"] = "done"
  /\ pc["HD189"] = "done"
  /\ derived["WASP49"] = NoDerived
  /\ consts = ConstantsCell
  /\ catalog = CatalogCells

NotebookTunables == [nu_c |-> F(150, 0), r_s |-> One, beta_s |-> F(1, -1)]

\* C10: with the notebook's parameters the WASP 49 cell prints a flux density
\* within 5% of 0.013 mJy.
C10_WASP49Flux ==
  \A h \in hist :
    (h.o = "WASP49" /\ h.t = NotebookTunables) =>
      Within(h.S, F(1235, -5), F(1365, -5))

C10_WASP49Printed ==
  \E h \in hist : h.o = "WASP49" /\ h.t = NotebookTunables /\ Positive(h.S)

====
